---- MODULE Spec2Model ----
(***************************************************************************)
(* A model of server.py: the pwndbg MCP server.  One GDB child process is  *)
(* driven over two pipes; commands are written to its stdin and its stdout *)
(* is read one character at a time until the prompt "pwndbg>" is seen, the *)
(* child falls silent, the stream closes or 5 seconds have passed.         *)
(*                                                                         *)
(* Text is a sequence of one-character strings.  Time is counted in ticks  *)
(* of 0.01 s.  The child's standard output is a sequence of items: a       *)
(* character, PAUSE (the child stays silent long enough for one select()   *)
(* call and the sleep after it to time out) or BAD (a byte the text layer  *)
(* cannot decode, so that read(1) raises) or HALF (the first bytes of a     *)
(* multi-byte character, the rest of which has not been written yet).      *)
(* After the last item the child either waits for input ("silent"), has    *)
(* exited ("eof"), or goes on writing for ever: "x" after "x" with no line  *)
(* end ("flood_chars") or line after line ("flood_lines").                 *)
(*                                                                         *)
(* The child's stdout is opened by Popen(..., text=True, bufsize=1): a     *)
(* buffered text stream over the pipe.  select() looks at the pipe: it     *)
(* reports it readable exactly when the next item is a character, a BAD    *)
(* byte or the end of an "eof" stream.  read(1) looks at the text stream:  *)
(* it returns a character the stream has read ahead if there is one, and   *)
(* otherwise takes from the pipe all the characters that have arrived      *)
(* (how many had arrived is the environment's choice), returns the first   *)
(* and keeps the rest read ahead, where select() does not see them.        *)
(* Reading itself takes no time.                                           *)
(***************************************************************************)
EXTENDS Naturals, Sequences, FiniteSets, TLC

NL == "\n"
CR == "\r"
TAB == "\t"
PAUSE == "<pause>"
BAD == "<undecodable>"
HALF == "<half>"
BACKTICK == "<backtick>"   \* the character `

(* ------------------------------------------------------------------ *)
(* Bounds of the model.                                                 *)
(* ------------------------------------------------------------------ *)
MaxOps == 3          \* operations the host serves before it shuts down
MaxChunks == 3       \* chunks a generated child response is built from
FloodExtra == 2      \* lines a flooding child emits beyond the 201st
PadExtra == 50       \* characters the longest command has beyond the 200th
MaxPull == 2         \* characters one read takes from the pipe, unless it takes all
MaxTurns == 1        \* times two callers in their loops give way to each other

(* ------------------------------------------------------------------ *)
(* Program constants.                                                   *)
(* ------------------------------------------------------------------ *)
timeout == 500           \* timeout = 5.0
SelectSlice == 10        \* select(..., 0.1)
PollSleep == 10          \* time.sleep(0.1)
ConfirmSleep == 5        \* time.sleep(0.05)
ConfirmSlice == 1        \* select(..., 0.01)
MaxOutputLines == 200    \* len(output_lines) > 200
MaxCommandLen == 200     \* len(command) > 200

PROMPT == <<"p","w","n","d","b","g",">">>
TRUNCATION_MARKER == <<".",".","."," ","(","2","0","0",")">>

ALLOWED_COMMANDS ==
    { <<"h","e","a","p">>,
      <<"b","i","n","s">>,
      <<"v","i","s","_","h","e","a","p","_","c","h","u","n","k","s">>,
      <<"h","e","a","p"," ","c","h","u","n","k","s">>,
      <<"c","h","u","n","k">>,
      <<"f","a","s","t","b","i","n","s">>,
      <<"s","m","a","l","l","b","i","n","s">>,
      <<"l","a","r","g","e","b","i","n","s">>,
      <<"u","n","s","o","r","t","e","d","b","i","n">>,
      <<"t","c","a","c","h","e">>,
      <<"a","r","e","n","a">>,
      <<"c","h","e","c","k","s","e","c">>,
      <<"v","m","m","a","p">>,
      <<"c","a","n","a","r","y">>,
      <<"p","i","e","b","a","s","e">>,
      <<"p","r","o","c","i","n","f","o">>,
      <<"r","e","g","i","s","t","e","r","s">>,
      <<"r","e","g","s">>,
      <<"s","t","a","c","k">>,
      <<"t","e","l","e","s","c","o","p","e">>,
      <<"c","o","n","t","e","x","t">>,
      <<"h","e","x","d","u","m","p">>,
      <<"s","e","a","r","c","h">>,
      <<"f","i","n","d">>,
      <<"g","o","t">>,
      <<"p","l","t">>,
      <<"r","o","p">>,
      <<"r","o","p","p","e","r">>,
      <<"s","t","r","i","n","g","s">>,
      <<"d","i","s","a","s","m">>,
      <<"d","i","s","a","s","s","e","m","b","l","e">>,
      <<"n","e","a","r","p","c">>,
      <<"p","d","i","s","a","s","s">>,
      <<"b","r","e","a","k">>,
      <<"c","o","n","t","i","n","u","e">>,
      <<"s","t","e","p">>,
      <<"n","e","x","t">>,
      <<"f","i","n","i","s","h">>,
      <<"r","u","n">>,
      <<"i","n","f","o">>,
      <<"p","r","i","n","t">>,
      <<"x">>,
      <<"e","x","a","m","i","n","e">>,
      <<"b","a","c","k","t","r","a","c","e">>,
      <<"b","t">>,
      <<"f","r","a","m","e">>,
      <<"s","e","t">>,
      <<"s","h","o","w">>,
      <<"l","i","s","t">>,
      <<"f","i","l","e">>,
      <<"l","o","a","d">> }

dangerous_patterns ==
    << <<"r","m">>,
       <<"d","e","l">>,
       <<"f","o","r","m","a","t">>,
       <<"m","k","f","s">>,
       <<"d","d"," ","i","f","=">>,
       <<"d","d"," ","o","f","=">>,
       <<"s","u","d","o">>,
       <<"s","u">>,
       <<"c","h","m","o","d"," ","+","x">>,
       <<"w","g","e","t">>,
       <<"c","u","r","l">>,
       <<"n","c"," ">>,
       <<"n","e","t","c","a","t">>,
       <<"p","y","t","h","o","n"," ","-","c">>,
       <<"p","e","r","l"," ","-","e">>,
       <<"r","u","b","y"," ","-","e">>,
       <<"b","a","s","h"," ","-","c">>,
       <<"s","h"," ","-","c">>,
       <<"$","(">>,
       <<BACKTICK>>,
       <<"&","&">>,
       <<"|","|">>,
       <<";">>,
       <<"|">>,
       <<">">>,
       <<">",">">>,
       <<"<">> >>

(* ------------------------------------------------------------------ *)
(* Python's string operations, on sequences of characters.              *)
(* ------------------------------------------------------------------ *)
Whitespace == {" ", NL, CR, TAB}

UpperCase == <<"A","B","C","D","E","F","G","H","I","J","K","L","M",
               "N","O","P","Q","R","S","T","U","V","W","X","Y","Z">>
LowerCase == <<"a","b","c","d","e","f","g","h","i","j","k","l","m",
               "n","o","p","q","r","s","t","u","v","w","x","y","z">>

\* str.lower(), one character
LowerChar(c) ==
    IF \E i \in 1..Len(UpperCase) : UpperCase[i] = c
    THEN LowerCase[CHOOSE i \in 1..Len(UpperCase) : UpperCase[i] = c]
    ELSE c

\* str.lower()
Lower(s) == [i \in 1..Len(s) |-> LowerChar(s[i])]

\* s.endswith(suffix)
EndsWith(s, suffix) ==
    /\ Len(s) >= Len(suffix)
    /\ SubSeq(s, Len(s) - Len(suffix) + 1, Len(s)) = suffix

\* pattern in s
Contains(s, pattern) ==
    \E i \in 0..Len(s) :
        /\ i + Len(pattern) <= Len(s)
        /\ \A k \in 1..Len(pattern) : s[i + k] = pattern[k]

\* the characters of s from the first one that is not in chars on
LStripChars(s, chars) ==
    IF \A i \in 1..Len(s) : s[i] \in chars THEN <<>>
    ELSE SubSeq(s, CHOOSE i \in 1..Len(s) :
                       /\ s[i] \notin chars
                       /\ \A j \in 1..(i - 1) : s[j] \in chars,
                Len(s))

\* s.rstrip(chars)
RStripChars(s, chars) ==
    IF \A i \in 1..Len(s) : s[i] \in chars THEN <<>>
    ELSE SubSeq(s, 1, CHOOSE i \in 1..Len(s) :
                          /\ s[i] \notin chars
                          /\ \A j \in (i + 1)..Len(s) : s[j] \in chars)

\* s.lstrip()
LStrip(s) == LStripChars(s, Whitespace)

\* s.rstrip()
RStrip(s) == RStripChars(s, Whitespace)

\* s.strip()
Strip(s) == LStrip(RStrip(s))

\* the characters of s up to its first whitespace character
TakeToken(s) ==
    IF \A i \in 1..Len(s) : s[i] \notin Whitespace THEN s
    ELSE SubSeq(s, 1, (CHOOSE i \in 1..Len(s) :
                           /\ s[i] \in Whitespace
                           /\ \A j \in 1..(i - 1) : s[j] \notin Whitespace) - 1)

\* s.split(): the maximal runs of non-whitespace characters
RECURSIVE Split(_)
Split(s) ==
    LET t == LStrip(s)
        tok == TakeToken(t)
    IN  IF t = <<>> THEN <<>>
        ELSE <<tok>> \o Split(SubSeq(t, Len(tok) + 1, Len(t)))

\* "\n".join(lines[i..j])
RECURSIVE JoinRange(_, _, _)
JoinRange(lines, i, j) ==
    IF i > j THEN <<>>
    ELSE IF i = j THEN lines[i]
    ELSE LET m == (i + j) \div 2
         IN  JoinRange(lines, i, m) \o <<NL>> \o JoinRange(lines, m + 1, j)

\* "\n".join(lines)
Join(lines) == JoinRange(lines, 1, Len(lines))

(* ------------------------------------------------------------------ *)
(* CommandGate: the checks of execute_custom_command, in code order.    *)
(* ------------------------------------------------------------------ *)
\* a slip: the patterns are looked for in the command as it was typed
DangerousHits_AsTyped(command) ==
    { i \in 1..Len(dangerous_patterns) : Contains(command, dangerous_patterns[i]) }

\* the indexes of the forbidden patterns that occur in command.lower()
DangerousHits(command) ==
    LET lowered == Lower(command)
    IN  { i \in 1..Len(dangerous_patterns) :
            Contains(lowered, dangerous_patterns[i]) }

\* the pattern the for loop reports: the first of the list that occurs
FirstDangerous(command) ==
    dangerous_patterns[CHOOSE i \in DangerousHits(command) :
                           \A j \in DangerousHits(command) : i <= j]

\* a slip: the whitelist is matched against the start of the token
NotAllowed_ByPrefix(base_command) ==
    ~ \E name \in ALLOWED_COMMANDS :
          /\ Len(name) <= Len(base_command)
          /\ SubSeq(base_command, 1, Len(name)) = name

\* base_command not in ALLOWED_COMMANDS
NotAllowed(base_command) == base_command \notin ALLOWED_COMMANDS

\* the reason execute_custom_command rejects command for, or "Ok"
Validate(command) ==
    IF command = <<>> THEN "Empty"
    ELSE IF Split(command) = <<>> THEN "Empty"
    ELSE IF NotAllowed(Split(command)[1]) THEN "NotWhitelisted"
    ELSE IF DangerousHits(command) # {} THEN "DangerousPattern"
    ELSE IF Len(command) > MaxCommandLen THEN "TooLong"
    ELSE "Ok"

(* ------------------------------------------------------------------ *)
(* State.                                                               *)
(* ------------------------------------------------------------------ *)
VARIABLES
    pc,            \* where the host is: "idle", inside a read loop, or "done"
    is_connected,  \* the global flag
    gdb_process,   \* the global handle: 0 is None, else the number of a child
    children,      \* per spawned child: "running", "exited" or "terminated"
    stream,        \* what the handle's child has still to deliver on stdout
    readahead,     \* what the text stream has taken from the pipe and not returned
    ending,        \* what the child does after that: "silent", "eof" or a flood
    command,       \* the command of the current _execute_safe_command call
    wrapped,       \* whether that call was made by execute_custom_command
    output_lines,  \* local of _execute_safe_command
    buffer,        \* local of _execute_safe_command / start_debug_session
    elapsed,       \* time.time() - start_time, in ticks
    quiet,         \* select() calls in a row that timed out
    consumed,      \* the characters read(1) returned during the current call
    wrote,         \* what the last operation wrote to the child's stdin
    spawned,       \* the children the last operation spawned
    terminated,    \* the terminate() calls the last operation made
    exit_reason,   \* how the last read loop ended
    op,            \* the last operation called
    result,        \* what it returned
    ops,           \* the operations called so far
    other          \* the call of another caller that is under way, set aside

vars == << pc, is_connected, gdb_process, children, stream, readahead, ending, command,
           wrapped, output_lines, buffer, elapsed, quiet, consumed, wrote,
           spawned, terminated, exit_reason, op, result, ops, other >>

session == << is_connected, gdb_process >>
pipes == << children, stream, readahead, ending >>
locals == << command, wrapped, output_lines, buffer, elapsed, quiet, consumed >>

Call(name, arg) == [name |-> name, arg |-> arg]

\* the locals of a call that has not entered a read loop
NoLocals ==
    /\ command' = <<>>
    /\ wrapped' = FALSE
    /\ output_lines' = <<>>
    /\ buffer' = <<>>
    /\ elapsed' = 0
    /\ quiet' = 0
    /\ consumed' = <<>>

NoResult == [kind |-> "None", text |-> <<>>, wrapped |-> FALSE]
Reply(kind) == [kind |-> kind, text |-> <<>>, wrapped |-> FALSE]
ReplyText(kind, text, w) == [kind |-> kind, text |-> text, wrapped |-> w]

Script(items, e) == [items |-> items, ending |-> e]

\* no other call is under way
NoOther ==
    [pc |-> "none", op |-> Call("none", <<>>), result |-> NoResult,
     buffer |-> <<>>, elapsed |-> 0, quiet |-> 0,
     consumed |-> <<>>, exit_reason |-> "none", spawned |-> 0, turns |-> 0]

\* whether select() finds the pipe readable: bytes are waiting, or the stream
\* is at its end; a flooding child never lets select() time out
Readable(s, e) ==
    IF s = <<>> THEN e # "silent" ELSE Head(s) # PAUSE

\* the items that are not characters read(1) can return
Stoppers == {PAUSE, BAD, HALF}

\* the characters at the front of s: those that arrive without a pause
Available(s) ==
    IF \A i \in 1..Len(s) : s[i] \notin Stoppers THEN Len(s)
    ELSE (CHOOSE i \in 1..Len(s) :
              /\ s[i] \in Stoppers
              /\ \A j \in 1..(i - 1) : s[j] \notin Stoppers) - 1

\* how many characters read(1) may take from the pipe: 0 when the text stream
\* has characters read ahead, else some or all of those that have arrived
PullSizes(s, ahead) ==
    IF ahead # <<>> THEN {0}
    ELSE { k \in 1..Available(s) : k <= MaxPull \/ k = Available(s) }

\* read(1) has a character to return
CanRead(s, ahead) == ahead # <<>> \/ Available(s) > 0

\* the character read(1) returns when it takes k characters from the pipe
CharRead(s, ahead, k) == IF k = 0 THEN Head(ahead) ELSE Head(s)

\* what is read ahead after that
AheadAfter(s, ahead, k) == IF k = 0 THEN Tail(ahead) ELSE SubSeq(s, 2, k)

\* what is left for the pipe to deliver after that
StreamAfter(s, k) == SubSeq(s, k + 1, Len(s))

\* the stream after a select() that timed out
AfterSilence(s) == IF s # <<>> /\ Head(s) = PAUSE THEN Tail(s) ELSE s

\* the children once the handle's child has s left to deliver: a child that
\* has delivered everything of an "eof" stream has exited
ChildrenAfter(s, e) ==
    IF gdb_process # 0 /\ s = <<>> /\ e = "eof"
       /\ children[gdb_process] = "running"
    THEN [children EXCEPT ![gdb_process] = "exited"]
    ELSE children

\* gdb_process.poll() is not None, the children being in the states ch
Exited(ch) == ch[gdb_process] = "exited"

Init ==
    /\ pc = "idle"
    /\ is_connected = FALSE
    /\ gdb_process = 0
    /\ children = <<>>
    /\ stream = <<>>
    /\ readahead = <<>>
    /\ ending = "silent"
    /\ command = <<>>
    /\ wrapped = FALSE
    /\ output_lines = <<>>
    /\ buffer = <<>>
    /\ elapsed = 0
    /\ quiet = 0
    /\ consumed = <<>>
    /\ wrote = <<>>
    /\ spawned = 0
    /\ terminated = 0
    /\ exit_reason = "none"
    /\ op = Call("none", <<>>)
    /\ result = NoResult
    /\ ops = 0
    /\ other = NoOther

(* ------------------------------------------------------------------ *)
(* _execute_safe_command                                                *)
(* ------------------------------------------------------------------ *)
\* a slip: the joined lines are returned whatever they are
ResultOf_Joined(lines, w) == ReplyText("Output", Join(lines), w)

\* the text returned after the loop from the lines collected
ResultOf(lines, w) ==
    IF lines # <<>>
    THEN IF Strip(Join(lines)) # <<>>
         THEN ReplyText("Output", Join(lines), w)
         ELSE ReplyText("Done", <<>>, w)
    ELSE ReplyText("NoOutput", <<>>, w)

\* what is left in the buffer after the loop becomes a last line
FinalLines(lines, buf) ==
    IF Strip(buf) # <<>> THEN Append(lines, Strip(buf)) ELSE lines

\* the line a completed buffer (ending in "\n") holds
LineOf(buf) == RStripChars(buf, {NL, CR})

\* the lines after a buffer ending in "\n" was completed: empty lines are dropped
WithLine(lines, buf) ==
    IF LineOf(buf) # <<>> THEN Append(lines, LineOf(buf)) ELSE lines

\* the lines after the buffer came to end with the prompt, with no "\n"
WithPrompt(lines, buf) ==
    IF Strip(buf) # <<>> THEN Append(lines, RStrip(buf)) ELSE lines

\* the output limit is reached
OverLimit(lines) == Len(lines) > MaxOutputLines

\* silence is taken for the end of the output
IdleCandidate(lines, buf) == lines # <<>> /\ buf = <<>>

\* the loop has ended with these lines and this buffer: lines 108-117
Return(lines, buf, reason) ==
    /\ pc' = "idle"
    /\ output_lines' = FinalLines(lines, buf)
    /\ buffer' = buf
    /\ exit_reason' = reason
    /\ result' = ResultOf(FinalLines(lines, buf), wrapped)

\* a slip: the guard is left out
NotConnected_Unchecked == FALSE

\* if not is_connected
NotConnected == ~is_connected

\* the call itself: the guard and the write of the command (lines 49-63)
Enter(name, cmd, w, script) ==
    /\ op' = Call(name, cmd)
    /\ ops' = ops + 1
    /\ spawned' = 0
    /\ terminated' = 0
    /\ UNCHANGED session
    /\ IF NotConnected
       THEN /\ result' = ReplyText("NotReady", <<>>, w)
            /\ exit_reason' = "none"
            /\ wrote' = <<>>
            /\ NoLocals
            /\ UNCHANGED << pc, pipes >>
       ELSE IF gdb_process = 0 \/ children[gdb_process] # "running"
       THEN \* the write or the flush raises: the except clause answers
            /\ result' = ReplyText("Failed", <<>>, w)
            /\ exit_reason' = "write_fault"
            /\ wrote' = <<>>
            /\ NoLocals
            /\ UNCHANGED << pc, pipes >>
       ELSE /\ wrote' = cmd \o <<NL>>
            /\ command' = cmd
            /\ wrapped' = w
            /\ output_lines' = <<>>
            /\ buffer' = <<>>
            /\ elapsed' = 0
            /\ quiet' = 0
            /\ consumed' = <<>>
            /\ exit_reason' = "none"
            /\ result' = NoResult
            /\ pc' = "exec_loop"
            \* a child waiting for input answers the command
            /\ stream' = IF ending = "silent" THEN stream \o script.items ELSE stream
            /\ ending' = IF ending = "silent" THEN script.ending ELSE ending
            /\ children' = ChildrenAfter(stream', ending')
            /\ UNCHANGED readahead

\* while time.time() - start_time < timeout: the condition fails
ExecDeadline ==
    /\ pc = "exec_loop"
    /\ elapsed >= timeout
    /\ Return(output_lines, buffer, "deadline")
    /\ UNCHANGED << session, pipes, command, wrapped, elapsed, quiet, consumed,
                    wrote, spawned, terminated, op, ops >>
    /\ UNCHANGED other

\* what read(1) did: took k characters from the pipe and returned one
Took(k) ==
    /\ stream' = StreamAfter(stream, k)
    /\ readahead' = AheadAfter(stream, readahead, k)
    /\ children' = ChildrenAfter(StreamAfter(stream, k), ending)
    /\ consumed' = Append(consumed, CharRead(stream, readahead, k))
    /\ quiet' = 0

\* select() finds the pipe readable and read(1) returns a character
ExecRead ==
    /\ pc = "exec_loop"
    /\ elapsed < timeout
    /\ Readable(stream, ending)
    /\ CanRead(stream, readahead)
    /\ \E k \in PullSizes(stream, readahead) :
         LET char == CharRead(stream, readahead, k)
             buf == buffer \o <<char>>
         IN  /\ Took(k)
             /\ IF char = NL
                THEN IF EndsWith(LineOf(buf), PROMPT)
                     THEN Return(WithLine(output_lines, buf), <<>>, "prompt")
                     ELSE IF OverLimit(WithLine(output_lines, buf))
                     THEN Return(Append(WithLine(output_lines, buf), TRUNCATION_MARKER),
                                 <<>>, "truncated")
                     ELSE /\ output_lines' = WithLine(output_lines, buf)
                          /\ buffer' = <<>>
                          /\ UNCHANGED << pc, exit_reason, result >>
                ELSE IF EndsWith(buf, PROMPT)
                     THEN Return(WithPrompt(output_lines, buf), buf, "prompt")
                     ELSE IF OverLimit(output_lines)
                     THEN Return(Append(output_lines, TRUNCATION_MARKER), buf, "truncated")
                     ELSE /\ buffer' = buf
                          /\ UNCHANGED << pc, output_lines, exit_reason, result >>
    /\ UNCHANGED << session, ending, command, wrapped, elapsed, wrote, spawned,
                    terminated, op, ops >>
    /\ UNCHANGED other

\* select() finds the pipe readable and read(1) returns nothing: end of stream
ExecEOF ==
    /\ pc = "exec_loop"
    /\ elapsed < timeout
    /\ stream = <<>>
    /\ ending = "eof"
    /\ readahead = <<>>
    /\ quiet' = 0
    /\ Return(output_lines, buffer, "eof")
    /\ UNCHANGED << session, pipes, command, wrapped, elapsed, consumed,
                    wrote, spawned, terminated, op, ops >>
    /\ UNCHANGED other

\* read(1) raises on a byte that cannot be decoded: the except clause answers
ExecReadFault ==
    /\ pc = "exec_loop"
    /\ elapsed < timeout
    /\ readahead = <<>>
    /\ stream # <<>>
    /\ Head(stream) = BAD
    /\ stream' = Tail(stream)
    /\ children' = ChildrenAfter(Tail(stream), ending)
    /\ UNCHANGED readahead
    /\ pc' = "idle"
    /\ quiet' = 0
    /\ exit_reason' = "read_fault"
    /\ result' = ReplyText("Failed", <<>>, wrapped)
    /\ UNCHANGED << session, ending, command, wrapped, output_lines, buffer,
                    elapsed, consumed, wrote, spawned, terminated, op, ops >>
    /\ UNCHANGED other

\* select() times out after 0.1 s: lines 98-106 up to the second select()
ExecNotReady ==
    /\ pc = "exec_loop"
    /\ elapsed < timeout
    /\ ~Readable(stream, ending)
    /\ stream' = AfterSilence(stream)
    /\ quiet' = quiet + 1
    /\ IF IdleCandidate(output_lines, buffer)
       THEN /\ elapsed' = elapsed + SelectSlice + ConfirmSleep
            /\ pc' = "exec_confirm"
       ELSE /\ elapsed' = elapsed + SelectSlice + PollSleep
            /\ pc' = "exec_loop"
    /\ UNCHANGED << session, children, readahead, ending, command, wrapped,
                    output_lines, buffer, consumed, wrote, spawned, terminated,
                    exit_reason, op, result, ops >>
    /\ UNCHANGED other

\* the second select(), of 0.01 s: silence again ends the loop
ExecConfirm ==
    /\ pc = "exec_confirm"
    /\ IF Readable(stream, ending)
       THEN /\ pc' = "exec_loop"
            /\ UNCHANGED << stream, elapsed, quiet, output_lines, buffer,
                            exit_reason, result >>
       ELSE /\ stream' = AfterSilence(stream)
            /\ elapsed' = elapsed + ConfirmSlice
            /\ quiet' = quiet + 1
            /\ Return(output_lines, buffer, "idle")
    /\ UNCHANGED << session, children, readahead, ending, command, wrapped,
                    consumed, wrote, spawned, terminated, op, ops >>
    /\ UNCHANGED other

\* what is left of the stream once the rest of a HALF character has come:
\* the pauses after it are waited for inside read(1)
AfterHalf(s) == LStripChars(Tail(s), {PAUSE})

\* the time read(1) spent waiting for the rest of a HALF character
HalfWait(s) == (Len(Tail(s)) - Len(AfterHalf(s))) * (SelectSlice + PollSleep)

\* the rest of a HALF character never comes: the child is silent from there on
NeverCompleted(s, e) == AfterHalf(s) = <<>> /\ e = "silent"

\* select() finds the pipe readable, but what waits is the start of a
\* multi-byte character: read(1) blocks until the rest arrives, with no
\* deadline; bytes that do not continue the character, or the end of the
\* stream, make it raise
ExecReadStalls ==
    /\ pc = "exec_loop"
    /\ elapsed < timeout
    /\ readahead = <<>>
    /\ stream # <<>>
    /\ Head(stream) = HALF
    /\ IF NeverCompleted(stream, ending)
       THEN /\ pc' = "exec_blocked"
            /\ stream' = <<>>
            /\ UNCHANGED << elapsed, exit_reason, result, children >>
       ELSE /\ pc' = "idle"
            /\ stream' = IF AfterHalf(stream) = <<>> THEN <<>>
                         ELSE Tail(AfterHalf(stream))
            /\ children' = ChildrenAfter(stream', ending)
            /\ elapsed' = elapsed + HalfWait(stream)
            /\ exit_reason' = "read_fault"
            /\ result' = ReplyText("Failed", <<>>, wrapped)
    /\ quiet' = 0
    /\ UNCHANGED << session, readahead, ending, command, wrapped, output_lines,
                    buffer, consumed, wrote, spawned, terminated, op, ops >>
    /\ UNCHANGED other

\* the child of a flood writes on, while a tick passes for the host
FloodBurst(e) == IF e = "flood_lines" THEN <<"a", NL>> ELSE <<"x">>

ChildFloods ==
    /\ pc \in {"exec_loop", "start_loop"}
    /\ elapsed < timeout
    /\ ending \in {"flood_chars", "flood_lines"}
    /\ stream = <<>>
    /\ readahead = <<>>
    /\ stream' = FloodBurst(ending)
    /\ elapsed' = elapsed + 1
    /\ UNCHANGED << pc, session, children, readahead, ending, command, wrapped,
                    output_lines, buffer, quiet, consumed, wrote, spawned,
                    terminated, exit_reason, op, result, ops >>
    /\ UNCHANGED other

(* ------------------------------------------------------------------ *)
(* The tools that run a command.                                        *)
(* ------------------------------------------------------------------ *)
\* heap(), bins(), ...: return _execute_safe_command(<literal>)
Tool(cmd, script) ==
    /\ pc = "idle"
    /\ ops < MaxOps
    /\ Enter("tool", cmd, FALSE, script)
    /\ UNCHANGED other

\* execute_custom_command(command); scripts are what the child may answer
ExecuteCustomCommand(cmd, scripts) ==
    /\ pc = "idle"
    /\ ops < MaxOps
    /\ LET verdict == Validate(cmd)
       IN  IF verdict = "Ok"
           THEN \E script \in scripts :
                    Enter("execute_custom_command", cmd, TRUE, script)
           ELSE /\ op' = Call("execute_custom_command", cmd)
                /\ ops' = ops + 1
                /\ result' = ReplyText(verdict,
                                       IF verdict = "DangerousPattern"
                                       THEN FirstDangerous(cmd) ELSE <<>>,
                                       FALSE)
                /\ wrote' = <<>>
                /\ spawned' = 0
                /\ terminated' = 0
                /\ exit_reason' = "none"
                /\ NoLocals
                /\ UNCHANGED << pc, session, pipes >>
    /\ UNCHANGED other

\* the fixed parts of the strings _execute_safe_command returns
NOT_READY_TEXT == <<"E","r","r","o","r",":"," ","n","o"," ","s","e","s","s","i","o","n">>
FAILED_PREFIX == <<"f","a","i","l","e","d",":"," ">>
DONE_SUFFIX == <<"'"," ","d","o","n","e">>
NO_OUTPUT_SUFFIX == <<"'"," ","r","a","n"," ","(","n","o"," ","o","u","t","p","u","t",")">>
CUSTOM_PREFIX == <<"c","u","s","t","o","m",":"," ">>

\* the string _execute_safe_command(cmd) returns for the reply r; the text of
\* the exception caught, which may be empty, follows FAILED_PREFIX
SafeCommandText(r, cmd) ==
    IF r.kind = "Output" THEN r.text
    ELSE IF r.kind = "Done" THEN <<"'">> \o cmd \o DONE_SUFFIX
    ELSE IF r.kind = "NoOutput" THEN <<"'">> \o cmd \o NO_OUTPUT_SUFFIX
    ELSE IF r.kind = "Failed" THEN FAILED_PREFIX
    ELSE IF r.kind = "NotReady" THEN NOT_READY_TEXT
    ELSE <<>>

\* the string the tool returns: execute_custom_command puts a header before it
ToolText(r, cmd) ==
    IF r.wrapped
    THEN CUSTOM_PREFIX \o cmd \o <<NL, NL>> \o SafeCommandText(r, cmd)
    ELSE SafeCommandText(r, cmd)

(* ------------------------------------------------------------------ *)
(* start_debug_session                                                  *)
(* ------------------------------------------------------------------ *)
\* the state of a child just spawned that will deliver script
Born(script) ==
    IF script.items = <<>> /\ script.ending = "eof" THEN "exited" ELSE "running"

\* lines 205-212: the child is polled once the loop has ended
StartOutcome(ch) ==
    /\ pc' = "idle"
    /\ IF Exited(ch)
       THEN /\ gdb_process' = 0
            /\ is_connected' = FALSE
            /\ result' = Reply("ProcessDied")
       ELSE /\ is_connected' = TRUE
            /\ result' = Reply("Started")
            /\ UNCHANGED gdb_process

\* a slip: the except clause resets the flag and keeps the handle
StartFailed_KeepsHandle ==
    /\ pc' = "idle"
    /\ is_connected' = FALSE
    /\ result' = Reply("StartFailed")
    /\ UNCHANGED gdb_process

\* the except clause of start_debug_session: lines 214-217
StartFailed ==
    /\ pc' = "idle"
    /\ gdb_process' = 0
    /\ is_connected' = FALSE
    /\ result' = Reply("StartFailed")

\* the file system: the paths os.path.exists() answers True for
ExistingFiles == { <<"/","b","i","n","/","l","s">> }

\* a slip: the path is not looked up
PathMissing_Unchecked(binary_path) == FALSE

\* binary_path and not os.path.exists(binary_path)
PathMissing(binary_path) == binary_path # <<>> /\ binary_path \notin ExistingFiles

\* the call: the two guards and subprocess.Popen (lines 153-188)
StartDebugSession(binary_path, popen_ok, script) ==
    /\ pc = "idle"
    /\ ops < MaxOps
    /\ op' = Call("start_debug_session", binary_path)
    /\ ops' = ops + 1
    /\ wrote' = <<>>
    /\ terminated' = 0
    /\ IF is_connected
       THEN /\ result' = Reply("AlreadyActive")
            /\ spawned' = 0
            /\ exit_reason' = "none"
            /\ NoLocals
            /\ UNCHANGED << pc, session, pipes >>
       ELSE IF PathMissing(binary_path)
       THEN /\ result' = Reply("TargetNotFound")
            /\ spawned' = 0
            /\ exit_reason' = "none"
            /\ NoLocals
            /\ UNCHANGED << pc, session, pipes >>
       ELSE IF ~popen_ok
       THEN \* Popen raises (gdb cannot be run): nothing is spawned
            /\ StartFailed
            /\ spawned' = 0
            /\ exit_reason' = "spawn_fault"
            /\ NoLocals
            /\ UNCHANGED pipes
       ELSE /\ children' = Append(children, Born(script))
            /\ gdb_process' = Len(children) + 1
            /\ spawned' = 1
            /\ stream' = script.items
            /\ readahead' = <<>>
            /\ ending' = script.ending
            /\ buffer' = <<>>
            /\ elapsed' = 0
            /\ quiet' = 0
            /\ consumed' = <<>>
            /\ output_lines' = <<>>
            /\ exit_reason' = "none"
            /\ result' = NoResult
            /\ pc' = "start_loop"
            /\ UNCHANGED << is_connected, command, wrapped >>
    /\ UNCHANGED other

\* the loop condition fails: 5 s have passed
StartDeadline ==
    /\ pc = "start_loop"
    /\ elapsed >= timeout
    /\ StartOutcome(children)
    /\ exit_reason' = "deadline"
    /\ UNCHANGED << pipes, locals, wrote, spawned, terminated, op, ops >>
    /\ UNCHANGED other

\* read(1) returns a character of the banner
StartRead ==
    /\ pc = "start_loop"
    /\ elapsed < timeout
    /\ Readable(stream, ending)
    /\ CanRead(stream, readahead)
    /\ \E k \in PullSizes(stream, readahead) :
         /\ Took(k)
         /\ buffer' = buffer \o <<CharRead(stream, readahead, k)>>
         /\ IF EndsWith(buffer \o <<CharRead(stream, readahead, k)>>, PROMPT)
            THEN /\ StartOutcome(ChildrenAfter(StreamAfter(stream, k), ending))
                 /\ exit_reason' = "prompt"
            ELSE UNCHANGED << pc, session, exit_reason, result >>
    /\ UNCHANGED << ending, command, wrapped, output_lines, elapsed, wrote,
                    spawned, terminated, op, ops >>
    /\ UNCHANGED other

\* read(1) returns nothing: the child closed its output
StartEOF ==
    /\ pc = "start_loop"
    /\ elapsed < timeout
    /\ stream = <<>>
    /\ ending = "eof"
    /\ readahead = <<>>
    /\ StartOutcome(children)
    /\ exit_reason' = "eof"
    /\ UNCHANGED << pipes, locals, wrote, spawned, terminated, op, ops >>
    /\ UNCHANGED other

\* read(1) raises: the except clause drops the handle
StartReadFault ==
    /\ pc = "start_loop"
    /\ elapsed < timeout
    /\ readahead = <<>>
    /\ stream # <<>>
    /\ Head(stream) = BAD
    /\ stream' = Tail(stream)
    /\ children' = ChildrenAfter(Tail(stream), ending)
    /\ UNCHANGED readahead
    /\ StartFailed
    /\ exit_reason' = "read_fault"
    /\ UNCHANGED << ending, locals, wrote, spawned, terminated, op, ops >>
    /\ UNCHANGED other

\* select() times out: time.sleep(0.1) and the next round
StartNotReady ==
    /\ pc = "start_loop"
    /\ elapsed < timeout
    /\ ~Readable(stream, ending)
    /\ stream' = AfterSilence(stream)
    /\ elapsed' = elapsed + SelectSlice + PollSleep
    /\ quiet' = quiet + 1
    /\ UNCHANGED << pc, session, children, readahead, ending, command, wrapped,
                    output_lines, buffer, consumed, wrote, spawned, terminated,
                    exit_reason, op, result, ops >>
    /\ UNCHANGED other

\* read(1) blocks on the start of a multi-byte character, as in ExecReadStalls
StartReadStalls ==
    /\ pc = "start_loop"
    /\ elapsed < timeout
    /\ readahead = <<>>
    /\ stream # <<>>
    /\ Head(stream) = HALF
    /\ IF NeverCompleted(stream, ending)
       THEN /\ pc' = "start_blocked"
            /\ stream' = <<>>
            /\ UNCHANGED << session, elapsed, exit_reason, result, children >>
       ELSE /\ stream' = IF AfterHalf(stream) = <<>> THEN <<>>
                         ELSE Tail(AfterHalf(stream))
            /\ children' = ChildrenAfter(stream', ending)
            /\ elapsed' = elapsed + HalfWait(stream)
            /\ StartFailed
            /\ exit_reason' = "read_fault"
    /\ quiet' = 0
    /\ UNCHANGED << readahead, ending, command, wrapped, output_lines, buffer,
                    consumed, wrote, spawned, terminated, op, ops >>
    /\ UNCHANGED other

(* ------------------------------------------------------------------ *)
(* stop_debug_session and the end of main                               *)
(* ------------------------------------------------------------------ *)
\* the children after gdb_process.terminate() returned
Terminate ==
    IF children[gdb_process] = "running"
    THEN [children EXCEPT ![gdb_process] = "terminated"]
    ELSE children

\* stop_debug_session(); terminate() may raise when the child still runs
StopDebugSession(term_raises) ==
    /\ pc = "idle"
    /\ ops < MaxOps
    /\ op' = Call("stop_debug_session", <<>>)
    /\ ops' = ops + 1
    /\ wrote' = <<>>
    /\ spawned' = 0
    /\ exit_reason' = "none"
    /\ IF ~is_connected
       THEN /\ result' = Reply("NotActive")
            /\ terminated' = 0
            /\ UNCHANGED << session, children >>
       ELSE IF gdb_process # 0 /\ term_raises /\ children[gdb_process] = "running"
       THEN /\ result' = Reply("StopFailed")
            /\ terminated' = 0
            /\ UNCHANGED << session, children >>
       ELSE /\ children' = IF gdb_process # 0 THEN Terminate ELSE children
            /\ terminated' = IF gdb_process # 0 THEN 1 ELSE 0
            /\ gdb_process' = 0
            /\ is_connected' = FALSE
            /\ result' = Reply("Stopped")
    /\ NoLocals
    /\ UNCHANGED << pc, stream, readahead, ending >>
    /\ UNCHANGED other

\* mcp.run() returns or is interrupted: the finally clause of main
Shutdown(term_raises) ==
    /\ pc = "idle"
    /\ pc' = "done"
    /\ op' = Call("shutdown", <<>>)
    /\ wrote' = <<>>
    /\ spawned' = 0
    /\ exit_reason' = "none"
    /\ IF gdb_process # 0 /\ term_raises /\ children[gdb_process] = "running"
       THEN \* terminate() raises out of the finally clause
            /\ result' = Reply("ShutdownFailed")
            /\ terminated' = 0
            /\ UNCHANGED << session, children >>
       ELSE /\ children' = IF gdb_process # 0 THEN Terminate ELSE children
            /\ terminated' = IF gdb_process # 0 THEN 1 ELSE 0
            /\ gdb_process' = 0
            /\ is_connected' = FALSE
            /\ result' = Reply("Exit")
    /\ NoLocals
    /\ UNCHANGED << stream, readahead, ending, ops >>
    /\ UNCHANGED other

(* ------------------------------------------------------------------ *)
(* The inputs: what the child delivers, and the commands asked for.     *)
(* ------------------------------------------------------------------ *)
\* the pieces a generated response of the child is made of
Chunks == { <<"a">>, <<NL>>, <<" ">>, PROMPT, <<PAUSE>> }

\* every concatenation of at most n chunks
RECURSIVE ChunkSeqs(_)
ChunkSeqs(n) ==
    IF n = 0 THEN { <<>> }
    ELSE ChunkSeqs(n - 1) \cup { s \o c : s \in ChunkSeqs(n - 1), c \in Chunks }

\* n lines "a", "b", "a", ... each ended by "\n"
FloodLines(n) ==
    [i \in 1..(2 * n) |->
        IF i % 2 = 0 THEN NL ELSE IF i % 4 = 1 THEN "a" ELSE "b"]

Foo == <<"f","o","o">>
ResultLine == <<"r","e","s","u","l","t","-","l","i","n","e">>

\* what a child does in a session's life
LifeScripts ==
    { Script(PROMPT, "silent"),
      Script(PROMPT \o <<" ">>, "silent"),
      Script(<<"a", NL>> \o PROMPT, "silent"),
      Script(<<"a", NL, PAUSE, PAUSE, "b", NL>> \o PROMPT, "silent"),
      Script(<<>>, "silent"),
      Script(<<>>, "eof"),
      Script(<<"a", NL>>, "eof"),
      Script(<<"a", BAD>>, "silent") }

Heap == <<"h","e","a","p">>

\* the binary_path arguments start_debug_session is called with
BinaryPaths == { <<>>, <<"/","b","i","n","/","l","s">>, <<"/","n","o">> }

\* the literal commands of the fixed tools that are modelled
ToolCommands == { Heap }

\* the commands execute_custom_command is asked to run
CustomCommands ==
    { <<>>,
      <<" ">>,
      Heap,
      Heap \o <<";"," ","r","m"," ","-","r","f"," ","/">>,
      Heap \o <<" ",";"," ","r","m"," ","-","r","f"," ","/">>,
      <<"n","o","t","a","c","o","m","m","a","n","d">> }

Next ==
    \/ \E cmd \in ToolCommands, script \in LifeScripts : Tool(cmd, script)
    \/ \E cmd \in CustomCommands : ExecuteCustomCommand(cmd, LifeScripts)
    \/ ExecDeadline
    \/ ExecRead
    \/ ExecEOF
    \/ ExecReadFault
    \/ ExecNotReady
    \/ ExecConfirm
    \/ \E binary_path \in BinaryPaths, popen_ok \in BOOLEAN, script \in LifeScripts :
           StartDebugSession(binary_path, popen_ok, script)
    \/ StartDeadline
    \/ StartRead
    \/ StartEOF
    \/ StartReadFault
    \/ StartNotReady
    \/ \E term_raises \in BOOLEAN : StopDebugSession(term_raises)
    \/ \E term_raises \in BOOLEAN : Shutdown(term_raises)

Spec == Init /\ [][Next]_vars

(* ------------------------------------------------------------------ *)
(* The framing loop alone: one command on a session that has just been  *)
(* started, answered by any of a larger set of child behaviours.        *)
(* ------------------------------------------------------------------ *)
\* what a child may answer one command with
FramerScripts ==
    { Script(s, e) : s \in ChunkSeqs(MaxChunks), e \in {"silent", "eof"} }
    \cup
    { Script(FloodLines(MaxOutputLines + 1 + FloodExtra), "silent"),
      Script(Foo \o <<NL>> \o ResultLine \o <<NL>> \o PROMPT \o <<" ">>, "silent"),
      Script(<<"a", CR, NL, " ", "b", " ", CR, NL>> \o PROMPT \o <<NL>>, "silent"),
      Script(<<"a", NL, "b", BAD>>, "silent") }

\* the state start_debug_session leaves when the banner ended with the prompt,
\* the host having one operation left to serve; the child waits for a command,
\* or has exited since
InitFramer ==
    /\ pc = "idle"
    /\ is_connected = TRUE
    /\ gdb_process = 1
    /\ children \in { << "running" >>, << "exited" >> }
    /\ stream = <<>>
    /\ readahead = <<>>
    /\ ending = IF children = << "exited" >> THEN "eof" ELSE "silent"
    /\ command = <<>>
    /\ wrapped = FALSE
    /\ output_lines = <<>>
    /\ buffer = PROMPT
    /\ elapsed = 0
    /\ quiet = 0
    /\ consumed = PROMPT
    /\ wrote = <<>>
    /\ spawned = 1
    /\ terminated = 0
    /\ exit_reason = "prompt"
    /\ op = Call("start_debug_session", <<>>)
    /\ result = Reply("Started")
    /\ ops = MaxOps - 1
    /\ other = NoOther

NextFramer ==
    \/ \E script \in FramerScripts : Tool(Heap, script)
    \/ ExecDeadline
    \/ ExecRead
    \/ ExecEOF
    \/ ExecReadFault
    \/ ExecNotReady
    \/ ExecConfirm

SpecFramer == InitFramer /\ [][NextFramer]_vars

(* ------------------------------------------------------------------ *)
(* What the claims are stated with.                                     *)
(* ------------------------------------------------------------------ *)
\* the positions of the line terminators of text[i..j]
Terminators(text, i, j) == { p \in i..j : text[p] = NL }

\* the distance between two positions
Distance(p, q) == IF p >= q THEN p - q ELSE q - p

\* text[i..j] cut at its line terminators
RECURSIVE SplitRange(_, _, _)
SplitRange(text, i, j) ==
    IF Terminators(text, i, j) = {} THEN << SubSeq(text, i, j) >>
    ELSE LET mid == (i + j) \div 2
             p == CHOOSE q \in Terminators(text, i, j) :
                      \A r \in Terminators(text, i, j) :
                          Distance(q, mid) <= Distance(r, mid)
         IN  SplitRange(text, i, p - 1) \o SplitRange(text, p + 1, j)

\* the lines of a text: the pieces between its line terminators
TextLines(text) == SplitRange(text, 1, Len(text))

\* what follows the last line terminator of a text
LastFragment(text) == TextLines(text)[Len(TextLines(text))]

NonEmpty(line) == line # <<>>

\* the non-empty lines the child completed, without their terminators
ChildLines(text) ==
    SelectSeq([k \in 1..(Len(TextLines(text)) - 1) |->
                  RStripChars(TextLines(text)[k], {CR})],
              NonEmpty)

\* a call of _execute_safe_command has returned
Returned == pc = "idle" /\ op.name \in {"tool", "execute_custom_command"}

\* C1: when the child answered with complete lines followed by the prompt
\* without a trailing newline, the result is exactly the non-empty lines
\* before the prompt, in order; the prompt fragment is not part of it.
C1_PromptFragmentExcluded ==
    ( /\ Returned
      /\ exit_reason = "prompt"
      /\ LastFragment(consumed) = PROMPT
      /\ ChildLines(consumed) # <<>> )
    => /\ result.kind = "Output"
       /\ TextLines(result.text) = ChildLines(consumed)

\* C2: the result never has more than 201 lines, and a truncated result has
\* exactly 201: the child's first 200 lines and then the truncation marker.
C2_TruncatedAt201 ==
    ( Returned /\ result.kind = "Output" )
    => /\ Len(TextLines(result.text)) <= MaxOutputLines + 1
       /\ exit_reason = "truncated" =>
            /\ Len(TextLines(result.text)) = MaxOutputLines + 1
            /\ TextLines(result.text)[MaxOutputLines + 1] = TRUNCATION_MARKER
            /\ SubSeq(TextLines(result.text), 1, MaxOutputLines)
                 = SubSeq(ChildLines(consumed), 1, MaxOutputLines)

(* ------------------------------------------------------------------ *)
(* CommandGate claims.                                                  *)
(* ------------------------------------------------------------------ *)
HeapSemicolonRm == Heap \o <<";"," ","r","m"," ","-","r","f"," ","/">>
HeapSpaceSemicolonRm == Heap \o <<" ",";"," ","r","m"," ","-","r","f"," ","/">>

\* execute_custom_command has returned
CustomReturned == pc = "idle" /\ op.name = "execute_custom_command"

\* the text begins with the name of a whitelisted command
StartsWithAllowed(text) ==
    \E name \in ALLOWED_COMMANDS :
        /\ Len(name) <= Len(text)
        /\ SubSeq(text, 1, Len(name)) = name

\* the first whitespace-separated token of the text is a whitelisted command
FirstTokenAllowed(text) ==
    /\ Split(text) # <<>>
    /\ Split(text)[1] \in ALLOWED_COMMANDS

\* a forbidden substring occurs in the lower-cased text
HasForbidden(text) ==
    \E i \in 1..Len(dangerous_patterns) : Contains(Lower(text), dangerous_patterns[i])

\* C3 as stated: a command that starts with a whitelisted command name and
\* contains a forbidden substring, such as "heap; rm -rf /", is rejected with
\* DangerousPattern, and nothing is written to the child.
C3_DangerousAfterAllowedName ==
    ( CustomReturned /\ StartsWithAllowed(op.arg) /\ HasForbidden(op.arg) )
    => result.kind = "DangerousPattern" /\ wrote = <<>>

\* C3 as amended: a command whose first whitespace-separated token is
\* whitelisted and which contains a forbidden substring is rejected with
\* DangerousPattern; "heap; rm -rf /", whose first token is "heap;", is
\* rejected with NotWhitelisted; in both cases nothing is written to the child.
C3_DangerousAfterAllowedToken ==
    /\ ( CustomReturned /\ FirstTokenAllowed(op.arg) /\ HasForbidden(op.arg) )
       => result.kind = "DangerousPattern" /\ wrote = <<>>
    /\ ( CustomReturned /\ op.arg = HeapSemicolonRm )
       => result.kind = "NotWhitelisted" /\ wrote = <<>>

\* both cases of C3 have happened: "heap ; rm -rf /" was rejected as dangerous
C3_Witness ==
    /\ CustomReturned
    /\ op.arg = HeapSpaceSemicolonRm
    /\ result.kind = "DangerousPattern"
    /\ result.text = <<"r","m">>

(* ------------------------------------------------------------------ *)
(* Session claims.                                                      *)
(* ------------------------------------------------------------------ *)
\* C4: when a command operation detects that the child has exited (a
\* zero-byte read, or a write failure), it still returns the partial output
\* or a failure text, and the session is reset: the status is Disconnected
\* and the handle released, so that a following start can succeed.
C4_ChildDeathResets ==
    ( Returned /\ exit_reason \in {"eof", "write_fault"} )
    => /\ result.kind \in {"Output", "Done", "NoOutput", "Failed"}
       /\ ~is_connected
       /\ gdb_process = 0

\* C5: whenever stop_debug_session was called on an active session, on return
\* the handle is released and the status is Disconnected, also when
\* terminate() failed.
C5_StopReleases ==
    ( /\ pc = "idle"
      /\ op.name = "stop_debug_session"
      /\ result.kind # "NotActive" )
    => gdb_process = 0 /\ ~is_connected

\* the results with which execute_custom_command rejects a command itself
GateRejections == {"Empty", "NotWhitelisted", "DangerousPattern", "TooLong"}

\* this step is a call of _execute_safe_command: by a fixed tool, or by
\* execute_custom_command for a command that passed its checks
CallsSafeCommand ==
    /\ pc = "idle"
    /\ ops' = ops + 1
    /\ \/ op'.name = "tool"
       \/ op'.name = "execute_custom_command" /\ result'.kind \notin GateRejections

\* C6: whenever the session is not Ready, a call of _execute_safe_command
\* returns the not-ready indication, writes nothing to and reads nothing from
\* the pipes, and leaves the handle and the connection status unchanged.
C6_NotReadyGuard ==
    [][ ( CallsSafeCommand /\ ~is_connected )
        => /\ result'.kind = "NotReady"
           /\ wrote' = <<>>
           /\ pc' = "idle"
           /\ UNCHANGED << is_connected, gdb_process, children, stream,
                           readahead, ending >> ]_vars

\* a command was refused as not ready after an earlier operation
C6_Witness ==
    /\ pc = "idle"
    /\ op.name = "tool"
    /\ result.kind = "NotReady"
    /\ ops >= 2
    /\ Len(children) >= 1

\* this step is a call of start_debug_session
CallsStart ==
    /\ pc = "idle"
    /\ ops' = ops + 1
    /\ op'.name = "start_debug_session"

\* C7: start_debug_session called while a session is active fails with
\* AlreadyActive, and called (with none active) for a path that does not
\* exist fails with TargetNotFound; in both cases no child is spawned and
\* the handle, the status and the existing child are unchanged.
C7_FailedStartSpawnsNothing ==
    [][ /\ ( CallsStart /\ is_connected )
           => /\ result'.kind = "AlreadyActive"
              /\ spawned' = 0
              /\ pc' = "idle"
              /\ UNCHANGED << is_connected, gdb_process, children, stream,
                              readahead, ending >>
        /\ ( CallsStart /\ ~is_connected
             /\ op'.arg # <<>> /\ op'.arg \notin ExistingFiles )
           => /\ result'.kind = "TargetNotFound"
              /\ spawned' = 0
              /\ pc' = "idle"
              /\ UNCHANGED << is_connected, gdb_process, children, stream,
                              readahead, ending >> ]_vars

\* a second start was refused and the running child kept
C7_Witness ==
    /\ pc = "idle"
    /\ op.name = "start_debug_session"
    /\ result.kind = "AlreadyActive"
    /\ is_connected
    /\ gdb_process = 1
    /\ children = << "running" >>

\* this step is a call of stop_debug_session
CallsStop ==
    /\ pc = "idle"
    /\ ops' = ops + 1
    /\ op'.name = "stop_debug_session"

\* C8: stop_debug_session on a Disconnected session reports NotActive and
\* changes nothing; the status is Disconnected after every call, and a call
\* that follows another reports NotActive without terminating anything.
C8_IdempotentStop ==
    [][ CallsStop
        => /\ ~is_connected'
           /\ ~is_connected
              => /\ result'.kind = "NotActive"
                 /\ terminated' = 0
                 /\ UNCHANGED << gdb_process, children, stream, readahead, ending >>
           /\ op.name = "stop_debug_session"
              => result'.kind = "NotActive" /\ terminated' = 0 ]_vars

\* C10: when the host has shut down, every child that was spawned and has
\* not exited has been terminated, and the handle and the status are cleared.
C10_NoOrphan ==
    pc = "done"
    => /\ \A i \in 1..Len(children) : children[i] # "running"
       /\ gdb_process = 0
       /\ ~is_connected

(* ------------------------------------------------------------------ *)
(* Idle confirmation.                                                   *)
(* ------------------------------------------------------------------ *)
\* what the child has put on its output since the command was written
Emitted == consumed \o readahead

\* the child answered with one line of visible text and nothing else, and waits
OneLineThenSilent ==
    /\ stream = <<>>
    /\ ending = "silent"
    /\ Len(TextLines(Emitted)) = 2
    /\ TextLines(Emitted)[2] = <<>>
    /\ Strip(TextLines(Emitted)[1]) # <<>>
    /\ ~Contains(TextLines(Emitted)[1], PROMPT)

\* C9: silence ends the read loop before the deadline only when a line has
\* been collected and the buffer is empty, after two polls in a row found
\* nothing; a child that emits one line and then stays silent yields exactly
\* that line before the deadline; with no line collected or a partial line
\* pending, a silent child is polled until the deadline.
C9_IdleConfirmation ==
    /\ ( Returned /\ exit_reason = "idle" )
       => output_lines # <<>> /\ buffer = <<>> /\ quiet >= 2
    /\ ( Returned /\ quiet >= 1 /\ (output_lines = <<>> \/ buffer # <<>>) )
       => exit_reason = "deadline" /\ elapsed >= timeout
    /\ ( Returned /\ OneLineThenSilent )
       => /\ result.kind = "Output"
          /\ result.text = RStripChars(TextLines(Emitted)[1], {CR})
          /\ elapsed < timeout

(* ------------------------------------------------------------------ *)
(* CommandGate alone: one free-form command, of a larger set, on a      *)
(* session that is Ready or on one that was never started.              *)
(* ------------------------------------------------------------------ *)
\* a whitelisted command padded to n characters
LongCommand(n) == Heap \o <<" ">> \o [i \in 1..(n - Len(Heap) - 1) |-> "a"]

Rm == <<"r","m">>

\* the commands execute_custom_command is asked to run
GateCommands ==
    CustomCommands
    \cup
    { <<" ", TAB, NL>>,
      <<" ">> \o Heap \o <<" ">>,
      Heap \o <<TAB, "a">>,
      Heap \o <<NL>> \o Rm,
      Heap \o <<NL>> \o Heap,
      Heap \o <<NL>> \o <<"n","o","t","a","c","o","m","m","a","n","d">>,
      <<"H","E","A","P">>,
      <<"H","e","a","p">>,
      <<"h","e","a","p","s">>,
      Heap \o <<" ", "R", "M">>,
      Heap \o <<" ", "a", "r", "m">>,
      Heap \o <<" ", BACKTICK>>,
      Rm \o <<" ">> \o Heap,
      <<"x", "/", "s", " ", "a">>,
      <<"x", " ", "a">>,
      LongCommand(MaxCommandLen),
      LongCommand(MaxCommandLen + 1),
      LongCommand(MaxCommandLen + PadExtra),
      LongCommand(MaxCommandLen + PadExtra) \o <<";">>,
      <<"n","o"," ">> \o LongCommand(MaxCommandLen + PadExtra) }

InitGate == Init \/ InitFramer

NextGate ==
    \/ \E cmd \in GateCommands : ExecuteCustomCommand(cmd, LifeScripts)
    \/ ExecDeadline
    \/ ExecRead
    \/ ExecEOF
    \/ ExecReadFault
    \/ ExecNotReady
    \/ ExecConfirm

SpecGate == InitGate /\ [][NextGate]_vars

\* the text is empty or consists of whitespace
Blank(text) == \A i \in 1..Len(text) : text[i] \in Whitespace

\* the command passes every check of CommandGate
Admitted(text) ==
    /\ ~Blank(text)
    /\ FirstTokenAllowed(text)
    /\ ~HasForbidden(text)
    /\ Len(text) <= MaxCommandLen

\* the first check that fails, in the order of CommandGate
FirstFailing(text) ==
    IF Blank(text) THEN "Empty"
    ELSE IF ~FirstTokenAllowed(text) THEN "NotWhitelisted"
    ELSE IF HasForbidden(text) THEN "DangerousPattern"
    ELSE "TooLong"

\* C12: execute_custom_command forwards the command, unmodified, if and only
\* if it is non-blank, its first token is in the whitelist, no forbidden
\* substring occurs in its lower-cased text and it has at most 200 characters;
\* otherwise it writes nothing and rejects it for the first failing check in
\* the order Empty, NotWhitelisted, DangerousPattern, TooLong.
C12_GateDecision ==
    CustomReturned
    => /\ result.wrapped <=> Admitted(op.arg)
       /\ result.kind \in GateRejections <=> ~Admitted(op.arg)
       /\ Admitted(op.arg)
            => \/ wrote = op.arg \o <<NL>>
               \/ wrote = <<>> /\ result.kind \in {"NotReady", "Failed"}
       /\ ~Admitted(op.arg)
            => /\ wrote = <<>>
               /\ result.kind = FirstFailing(op.arg)

\* the 250-character whitelisted command was rejected as too long
C12_Witness ==
    /\ CustomReturned
    /\ op.arg = LongCommand(MaxCommandLen + PadExtra)
    /\ Len(op.arg) = MaxCommandLen + PadExtra
    /\ result.kind = "TooLong"
    /\ is_connected

(* ------------------------------------------------------------------ *)
(* Results are always text.                                             *)
(* ------------------------------------------------------------------ *)
\* the ways a call of _execute_safe_command on a Ready session ends
LoopExits == {"prompt", "idle", "deadline", "eof", "truncated"}
PipeFaults == {"write_fault", "read_fault"}

\* C11: on a Ready session _execute_safe_command returns a non-empty string
\* on every exit path; a fault on the pipes yields the failure text; when no
\* line was collected the result is the no-output placeholder.
C11_AlwaysText ==
    ( Returned /\ exit_reason \in LoopExits \cup PipeFaults )
    => /\ result.kind \in {"Output", "Done", "NoOutput", "Failed"}
       /\ SafeCommandText(result, op.arg) # <<>>
       /\ ToolText(result, op.arg) # <<>>
       /\ exit_reason \in PipeFaults <=> result.kind = "Failed"
       /\ ( exit_reason \in LoopExits /\ output_lines = <<>> )
            <=> result.kind = "NoOutput"

\* a silent child was polled to the deadline and the placeholder returned
C11_Witness ==
    /\ Returned
    /\ exit_reason = "deadline"
    /\ output_lines = <<>>
    /\ consumed = <<>>
    /\ result.kind = "NoOutput"
    /\ SafeCommandText(result, op.arg) = <<"'">> \o Heap \o NO_OUTPUT_SUFFIX

(* ------------------------------------------------------------------ *)
(* The outcome of a start.                                              *)
(* ------------------------------------------------------------------ *)
\* start_debug_session has returned after it spawned a child
StartReturned ==
    /\ pc = "idle"
    /\ op.name = "start_debug_session"
    /\ spawned = 1

\* the child the last start spawned
NewChild == Len(children)

\* C13: a start that spawned a child ends its loop on the prompt, the end of
\* the stream or the deadline; on return the status is Ready with the handle
\* set if the child has not exited, and otherwise the call fails with
\* ProcessDied, the handle is released and the status is Disconnected.
C13_StartOutcome ==
    StartReturned
    => /\ exit_reason \in {"prompt", "eof", "deadline"}
       /\ IF children[NewChild] = "running"
          THEN /\ result.kind = "Started"
               /\ is_connected
               /\ gdb_process = NewChild
          ELSE /\ result.kind = "ProcessDied"
               /\ ~is_connected
               /\ gdb_process = 0

(* ------------------------------------------------------------------ *)
(* Suspension: a start and the commands after it, for children that     *)
(* stay silent, flood, stop in the middle of a line or of a character,  *)
(* or exit.                                                             *)
(* ------------------------------------------------------------------ *)
SuspendScripts ==
    { Script(<<>>, "silent"),
      Script(PROMPT, "silent"),
      Script(<<"a">>, "silent"),
      Script(<<"a", NL>>, "silent"),
      Script(<<"a", NL, PAUSE, "b">>, "silent"),
      Script(<<>>, "eof"),
      Script(<<"a">>, "eof"),
      Script(<<>>, "flood_chars"),
      Script(<<>>, "flood_lines"),
      Script(<<"a", BAD>>, "silent"),
      Script(<<HALF>>, "silent"),
      Script(<<"a", NL, HALF, PAUSE>>, "silent"),
      Script(<<HALF, PAUSE, "a">>, "silent"),
      Script(<<HALF>>, "eof") }

NextSuspend ==
    \/ \E script \in SuspendScripts : StartDebugSession(<<>>, TRUE, script)
    \/ StartDeadline
    \/ StartRead
    \/ StartEOF
    \/ StartReadFault
    \/ StartReadStalls
    \/ StartNotReady
    \/ \E script \in SuspendScripts : Tool(Heap, script)
    \/ ExecDeadline
    \/ ExecRead
    \/ ExecEOF
    \/ ExecReadFault
    \/ ExecReadStalls
    \/ ExecNotReady
    \/ ExecConfirm
    \/ ChildFloods

SpecSuspend == Init /\ [][NextSuspend]_vars

\* a call of _execute_safe_command or of start_debug_session is under way
InCall == pc \in {"exec_loop", "exec_confirm", "exec_blocked",
                  "start_loop", "start_blocked"}

\* the call waits inside a read that no deadline bounds
Suspended == pc \in {"exec_blocked", "start_blocked"}

\* this step is a turn of a read loop: anything but leaving it at the deadline
LoopTurn ==
    /\ pc \in {"exec_loop", "start_loop"}
    /\ ~(pc' = "idle" /\ exit_reason' = "deadline")

\* what a call has before it, time apart: the output not yet looked at, and
\* the way back from the confirming poll to the loop
Pending ==
    2 * (Len(stream) + Len(readahead)) + (IF pc = "exec_confirm" THEN 1 ELSE 0)

\* the step uses up time, or some of what is pending
Advances == elapsed' > elapsed \/ (elapsed' = elapsed /\ Pending' < Pending)

\* C14: whatever the child does, every call of _execute_safe_command and of
\* start_debug_session eventually returns, and its read loop starts no new
\* iteration once 5 s have passed since the loop began: a call is never
\* suspended without a deadline, every step of a call that does not end it
\* uses up time or pending output, and the time a call has used stays within
\* one turn of the deadline.
C14_BoundedSuspension ==
    [][ /\ LoopTurn => elapsed < timeout
        /\ InCall' => ~Suspended'
        /\ (InCall /\ InCall') => Advances
        /\ InCall' => elapsed' < timeout + SelectSlice + PollSleep ]_vars

(* ------------------------------------------------------------------ *)
(* Two callers: a second start_debug_session arrives while the first    *)
(* is still reading the banner.  The call that runs has the variables;   *)
(* the call that waits its turn is kept in other.  Both read the pipe    *)
(* of the handle the global gdb_process holds at that moment, and the    *)
(* callers take turns between two rounds of the loop.  Each caller      *)
(* measures the time of its own loop from its own start_time: the        *)
(* callers wait in select() and sleep() side by side.                    *)
(* ------------------------------------------------------------------ *)
\* the call that runs, as it is set aside
SetAside(turns) ==
    [pc |-> pc, op |-> op, result |-> result, buffer |-> buffer,
     elapsed |-> elapsed, quiet |-> quiet,
     consumed |-> consumed, exit_reason |-> exit_reason, spawned |-> spawned,
     turns |-> turns]

\* if is_connected: line 153
Busy == is_connected

\* lines 153-188 run by a second caller while the first is in its loop
StartArrives(binary_path, script) ==
    /\ pc = "start_loop"
    /\ other.pc = "none"
    /\ ops < MaxOps
    /\ other' = SetAside(0)
    /\ op' = Call("start_debug_session", binary_path)
    /\ ops' = ops + 1
    /\ wrote' = <<>>
    /\ terminated' = 0
    /\ IF Busy
       THEN /\ result' = Reply("AlreadyActive")
            /\ spawned' = 0
            /\ exit_reason' = "none"
            /\ pc' = "idle"
            /\ NoLocals
            /\ UNCHANGED << session, pipes >>
       ELSE IF PathMissing(binary_path)
       THEN /\ result' = Reply("TargetNotFound")
            /\ spawned' = 0
            /\ exit_reason' = "none"
            /\ pc' = "idle"
            /\ NoLocals
            /\ UNCHANGED << session, pipes >>
       ELSE /\ children' = Append(children, Born(script))
            /\ gdb_process' = Len(children) + 1
            /\ spawned' = 1
            /\ stream' = script.items
            /\ readahead' = <<>>
            /\ ending' = script.ending
            /\ buffer' = <<>>
            /\ elapsed' = 0
            /\ quiet' = 0
            /\ consumed' = <<>>
            /\ output_lines' = <<>>
            /\ exit_reason' = "none"
            /\ result' = NoResult
            /\ pc' = "start_loop"
            /\ UNCHANGED << is_connected, command, wrapped >>

\* the callers take turns: the one set aside runs on; a caller that has
\* returned always gives way to the one still in its loop
TakeTurns ==
    /\ other.pc = "start_loop"
    /\ pc \in {"idle", "start_loop"}
    /\ pc = "idle" \/ other.turns < MaxTurns
    /\ pc' = other.pc
    /\ op' = other.op
    /\ result' = other.result
    /\ buffer' = other.buffer
    /\ elapsed' = other.elapsed
    /\ quiet' = other.quiet
    /\ consumed' = other.consumed
    /\ exit_reason' = other.exit_reason
    /\ spawned' = other.spawned
    /\ other' = SetAside(other.turns + 1)
    /\ UNCHANGED << session, pipes, command, wrapped, output_lines, wrote,
                    terminated, ops >>

\* gdb_process.stdout or gdb_process.poll() when the other caller has set
\* gdb_process to None: the except clause, lines 214-217
StartHandleGone ==
    /\ pc = "start_loop"
    /\ gdb_process = 0
    /\ StartFailed
    /\ exit_reason' = "handle_gone"
    /\ UNCHANGED << pipes, locals, wrote, spawned, terminated, op, ops, other >>

\* what the children of two racing starts do
RaceScripts ==
    { Script(PROMPT, "silent"),
      Script(<<"a", PAUSE>> \o PROMPT, "silent"),
      Script(<<>>, "eof"),
      Script(<<"a", NL>>, "eof"),
      Script(<<"a", BAD>>, "silent") }

NextRace ==
    \/ /\ ops = 0
       /\ \E script \in RaceScripts : StartDebugSession(<<>>, TRUE, script)
    \/ \E binary_path \in BinaryPaths, script \in RaceScripts :
           StartArrives(binary_path, script)
    \/ TakeTurns
    \/ StartHandleGone
    \/ gdb_process # 0 /\ StartDeadline
    \/ gdb_process # 0 /\ StartRead
    \/ gdb_process # 0 /\ StartEOF
    \/ gdb_process # 0 /\ StartReadFault
    \/ gdb_process # 0 /\ StartNotReady

SpecRace == Init /\ [][NextRace]_vars

\* this step is a start_debug_session called while another is in its loop
ArrivesDuringStart ==
    /\ pc = "start_loop"
    /\ ops' = ops + 1
    /\ op'.name = "start_debug_session"

\* C15: a start_debug_session that arrives while another is still reading
\* the banner fails with AlreadyActive; it spawns no child and leaves the
\* handle of the first session in place.
C15_SingleSessionUnderRace ==
    [][ ArrivesDuringStart
        => /\ result'.kind = "AlreadyActive"
           /\ spawned' = 0
           /\ children' = children
           /\ gdb_process' = gdb_process ]_vars

(* ------------------------------------------------------------------ *)
(* The flag and the handle, between operations run one at a time.       *)
(* ------------------------------------------------------------------ *)
\* no operation is under way
Completed == pc \in {"idle", "done"}

\* C16: whenever no operation is under way, is_connected is true exactly when
\* gdb_process is set.
C16_StatusHandleAgree ==
    Completed => (is_connected <=> gdb_process # 0)

\* a start that spawned a child has failed in its except clause after a
\* session had been stopped, and left neither flag nor handle
C16_Witness ==
    /\ pc = "idle"
    /\ op.name = "start_debug_session"
    /\ result.kind = "StartFailed"
    /\ spawned = 1
    /\ ~is_connected
    /\ gdb_process = 0
    /\ \E i \in 1..Len(children) : children[i] = "exited"

(* ------------------------------------------------------------------ *)
(* Two commands on one session.  The child answers each command with    *)
(* lines made of the letter of that command, so that a result shows      *)
(* which command the output in it was produced for.                      *)
(* ------------------------------------------------------------------ *)
\* the letter the child answers the n-th operation with
LetterOf(n) == IF n % 2 = 0 THEN "x" ELSE "y"

\* n lines of the letter x
LinesOf(x, n) == [i \in 1..(2 * n) |-> IF i % 2 = 0 THEN NL ELSE x]

\* the child says nothing for as long as the loop of a command lasts
LongSilence == [i \in 1..(timeout \div (SelectSlice + PollSleep)) |-> PAUSE]

\* what the child answers a command with, in the letter x
LeakScripts(x) ==
    { Script(<<x, NL>> \o PROMPT \o <<" ">>, "silent"),
      Script(<<x, NL, PAUSE, x, NL>> \o PROMPT \o <<" ">>, "silent"),
      Script(LinesOf(x, MaxOutputLines + 1 + FloodExtra) \o PROMPT \o <<" ">>, "silent"),
      Script(<<x>> \o LongSilence \o <<x, NL>> \o PROMPT \o <<" ">>, "silent"),
      Script(<<x, NL>> \o PROMPT \o <<" ", NL, x, x, NL>>, "silent") }

\* what the child answers the last command with
LastScripts(x) ==
    { Script(<<x, NL>> \o PROMPT \o <<" ">>, "silent"),
      Script(<<x, NL, PAUSE, x, NL>> \o PROMPT \o <<" ">>, "silent") }

\* the state start_debug_session leaves when the banner ended with the prompt,
\* the host having two operations left to serve
InitLeak ==
    /\ pc = "idle"
    /\ is_connected = TRUE
    /\ gdb_process = 1
    /\ children = << "running" >>
    /\ stream = <<>>
    /\ readahead = <<>>
    /\ ending = "silent"
    /\ command = <<>>
    /\ wrapped = FALSE
    /\ output_lines = <<>>
    /\ buffer = PROMPT
    /\ elapsed = 0
    /\ quiet = 0
    /\ consumed = PROMPT
    /\ wrote = <<>>
    /\ spawned = 1
    /\ terminated = 0
    /\ exit_reason = "prompt"
    /\ op = Call("start_debug_session", <<>>)
    /\ result = Reply("Started")
    /\ ops = MaxOps - 2
    /\ other = NoOther

NextLeak ==
    \/ \E script \in IF ops + 1 < MaxOps THEN LeakScripts(LetterOf(ops + 1))
                                        ELSE LastScripts(LetterOf(ops + 1)) :
           Tool(Heap, script)
    \/ ExecDeadline
    \/ ExecRead
    \/ ExecNotReady
    \/ ExecConfirm

SpecLeak == InitLeak /\ [][NextLeak]_vars

\* the letters of the other commands
OtherLetters == {"x", "y"} \ {LetterOf(ops)}

\* C17: the result of a command holds only output the child produced for
\* that command: nothing an earlier command left unread appears in it.
C17_NoLeak ==
    Returned
    => \A i \in 1..Len(result.text) : result.text[i] \notin OtherLetters

(* ------------------------------------------------------------------ *)
(* The lines that reach the child's input.                              *)
(* ------------------------------------------------------------------ *)
\* the lines of what was written: each piece a line terminator ends
InputLines(w) == [k \in 1..(Len(TextLines(w)) - 1) |-> TextLines(w)[k]]

\* C18: whatever execute_custom_command writes to the child is one line, and
\* every line it writes begins with a whitelisted token and contains no
\* forbidden substring.
C18_EveryLineAdmitted ==
    ( op.name = "execute_custom_command" /\ wrote # <<>> )
    => /\ Len(InputLines(wrote)) = 1
       /\ \A k \in 1..Len(InputLines(wrote)) :
              /\ FirstTokenAllowed(InputLines(wrote)[k])
              /\ ~HasForbidden(InputLines(wrote)[k])

====
